---- MODULE Spec2Model ----
(***************************************************************************)
(* Model of the paginated / windowed streaming fetch engine of the         *)
(* coinbase client: ListAccounts and ListAddresses (sequential page        *)
(* streamer), CandleSticks (windowed concurrent fetcher) and the shared    *)
(* canceler.                                                               *)
(*                                                                         *)
(* Channels are unbuffered, so a send and its receive are one step.        *)
(* Strings are tuples of characters.  Times are records [sec, off]: the    *)
(* instant in seconds since the zero time and the zone offset of the       *)
(* value's location; durations are whole seconds, throttle durations are    *)
(* milliseconds.                                                           *)
(***************************************************************************)
EXTENDS Integers, Sequences, FiniteSets, TLC

\* ---------------------------------------------------------------- bounds
\* Largest MaxPage a caller passes.
MaxPageBound == 2
\* Largest number of invocations of the Cancel function.
MaxCancelCalls == 2

\* Largest number of whole increments in the span of a candlestick request.
MaxWindows == 2

\* Largest number of calls of the setters of the client, and of requests
\* the client signs.
MaxSetCalls == 2
MaxRequests == 2

\* Page indices at or above PageCap are collapsed into the one value PageCap
\* (the driver's counter saturates there) and pages carrying it are not
\* logged: every logged page has an exact index below PageCap.  PageCap is
\* larger than every MaxPage, so the page ceiling decides exactly.
PageCap == MaxPageBound + 2

\* ------------------------------------------------------------- constants
NoThrottle == -1
\* Mutant: the pool is run with one worker more.
PoolWorkers_OneMore == 4 + 1
\* Workers of the pool that runs the candlestick jobs.
PoolWorkers == 4
\* The default window increment (5 hours) and the largest granularity that
\* replaces it, in seconds; the default throttle of CandleSticks, in ms.
DefaultIncrement == 5 * 3600
MaxGranularity == 30
DefaultCandleThrottle == 350

\* ---------------------------------------------------------------- inputs
Space == " "
Strings == { <<>>, <<Space>>, <<Space, Space>>, <<"a">>, <<Space, "a">>,
             <<"a", Space>> }
ThrottleInputs == {NoThrottle, 0, 5}
MaxPageInputs == (-1)..MaxPageBound
\* A fetched page or window is empty or not; its items are not modelled.
ItemCounts == {0, 1}
Products == { <<>>, <<Space>>, <<"a">> }
GranularityInputs == {0, 1, MaxGranularity, MaxGranularity + 1}
ZoneOffsets == {0, -21600}

\* The credentials the client is created with, the ones a caller installs
\* later, and the nil *Credentials.
Creds1 == [isNil |-> FALSE, APIKey |-> "k1", APISecret |-> "s1",
           Passphrase |-> "p1"]
Creds2 == [isNil |-> FALSE, APIKey |-> "k2", APISecret |-> "s2",
           Passphrase |-> "p2"]
NilCreds == [isNil |-> TRUE, APIKey |-> "", APISecret |-> "", Passphrase |-> ""]
CredentialsInputs == {NilCreds, Creds1, Creds2}
PassphraseInputs == {"", "p3"}
RoundTrippers == {"nil", "custom"}

\* Arguments of the single-call operations.  Prices and sizes are whole
\* numbers standing for the floats.
GTT == "GTT"
NilArg == [isNil |-> TRUE]
CreateAccountInputs ==
  { [isNil |-> FALSE, Name |-> n] : n \in Strings } \cup { NilArg }
UpdateAccountInputs ==
  { [isNil |-> FALSE, ID |-> i, Name |-> n] : i \in Strings, n \in Strings }
  \cup { NilArg }
AccountIDInputs == { [isNil |-> FALSE, accountID |-> i] : i \in Strings }
OrderInputs ==
  { [isNil |-> FALSE, Product |-> p, Price |-> pr, Size |-> sz, Side |-> sd,
     CancelAfter |-> ca, TimeInForce |-> tif] :
      p \in Products, pr \in {-1, 0, 1}, sz \in {0, 1}, sd \in {"", "buy"},
      ca \in {"", "min"}, tif \in {"", GTT, "GTC"} }
  \cup { NilArg }

\* What the transport gives back for a request: an error, or a response with
\* a status code and a body that is absent, unreadable, or readable with a
\* length in bytes and a content that decodes as JSON or does not.
StatusCodes == {200, 204, 299, 300, 404, 500}
Bodies ==
  { [present |-> FALSE, readable |-> FALSE, len |-> 0, json |-> FALSE],
    [present |-> TRUE, readable |-> FALSE, len |-> 0, json |-> FALSE],
    [present |-> TRUE, readable |-> TRUE, len |-> 0, json |-> FALSE] } \cup
  { [present |-> TRUE, readable |-> TRUE, len |-> l, json |-> j] :
      l \in {2, 3, 4}, j \in BOOLEAN }
HTTPResponses ==
  { [transportErr |-> TRUE, StatusCode |-> 0,
     Body |-> [present |-> FALSE, readable |-> FALSE, len |-> 0,
               json |-> FALSE]] } \cup
  { [transportErr |-> FALSE, StatusCode |-> c, Body |-> b] :
      c \in StatusCodes, b \in Bodies }
NoResponse ==
  [transportErr |-> FALSE, StatusCode |-> 0,
   Body |-> [present |-> FALSE, readable |-> FALSE, len |-> 0, json |-> FALSE],
   none |-> TRUE]

VARIABLES
  kind,             \* which entry point the caller uses
  req,              \* the caller's request
  ret,              \* what the entry point returned: "pending" before the call
  pc,               \* position of the driver goroutine
  pageNumber,       \* the driver's pageNumber
  page,             \* the page the driver has built and is sending
  nextURI,          \* the driver's nextURI: "" or "next"
  throttleDuration, \* the driver's throttleDuration, in ms
  timerFired,       \* the channel of time.After(throttleDuration) is ready
  onceDone,         \* closeOnce has run
  closeCount,       \* times close(signaler) was executed
  panicked,         \* a close of a closed channel happened
  cancelCalls,      \* invocations of the Cancel function so far
  pagesClosed,      \* PagesChan is closed
  receiving,        \* the consumer still receives from PagesChan
  delivered,        \* pages the consumer received, in order
  responses,        \* outcome of every completed fetch: in fetch order for
                    \* the sequential streamer, in window order for CandleSticks
  gpc,              \* position of the window generator goroutine
  startTime,        \* the generator's startTime
  endTime,          \* the generator's endTime
  job,              \* the job the generator is sending on jobsChan
  jobs,             \* the jobs the pool received from jobsChan, in order
  running,          \* ids of the jobs whose Do is executing
  finished,         \* results of completed jobs not yet taken from resChan
  csPage,           \* the page the forwarding loop is sending, or NoPage
  resClosed,        \* resChan is closed
  apiKey,           \* Client.apiKey
  apiSecret,        \* Client.apiSecret
  passphrase,       \* Client.passphrase
  rt,               \* Client.rt: "nil" or a caller's round tripper
  mu,               \* Client.mu: "unlocked" or "locked" (for writing)
  spc,              \* position of the caller inside SetCredentials
  creds,            \* the argument of the SetCredentials in progress
  rpc,              \* position of the request inside doAuthAndReq
  hdr,              \* what the request being signed carries so far
  sent,             \* what the last request handed to the transport carried
  installed,        \* every credential set the client has held
  setCalls,         \* calls of the setters so far
  requests,         \* requests signed or being signed so far
  op,               \* the single-call operation the caller invoked, or "none"
  arg,              \* its argument
  opc,              \* its position: "none", "inflight" (request sent), "done"
  opRet,            \* the error it returned: "pending" before, "nil" for none
  httpErr,          \* the error doHTTPReq returned: "pending" before
  httpRequests,     \* HTTP requests the operation handed to the client
  resp              \* the response the transport gave

streamVars == << kind, req, ret, pc, pageNumber, page, nextURI,
                 throttleDuration, timerFired, onceDone, closeCount, panicked,
                 cancelCalls, pagesClosed, receiving, delivered, responses,
                 gpc, startTime, endTime, job, jobs, running, finished,
                 csPage, resClosed >>

clientVars == << apiKey, apiSecret, passphrase, rt, mu, spc, creds, rpc, hdr,
                 sent, installed, setCalls, requests >>

opVars == << op, arg, opc, opRet, httpErr, httpRequests, resp >>

vars == << streamVars, clientVars, opVars >>

candleVars == << gpc, startTime, endTime, job, jobs, running, finished,
                 csPage, resClosed >>

\* ------------------------------------------------------------- helpers
RECURSIVE TrimLeft(_)
TrimLeft(s) == IF s # <<>> /\ Head(s) = Space THEN TrimLeft(Tail(s)) ELSE s

RECURSIVE TrimRight(_)
TrimRight(s) ==
  IF s # <<>> /\ s[Len(s)] = Space THEN TrimRight(SubSeq(s, 1, Len(s) - 1))
  ELSE s

\* strings.TrimSpace
TrimSpace(s) == TrimRight(TrimLeft(s))

NilPage == [PageNumber |-> 0, n |-> 0, Err |-> FALSE]
NoPage == [PageNumber |-> 0, n |-> 0, Err |-> FALSE, none |-> TRUE]
NoJob == [id |-> 0]
NoHeaders == [key |-> "", secret |-> "", passphrase |-> "", rt |-> "none"]

\* time.Time: After, Equal and Sub compare instants, Add keeps the location.
zeroTime == [sec |-> 0, off |-> 0]
After(t, u) == t.sec > u.sec
Equal(t, u) == t.sec = u.sec
Sub(t, u) == t.sec - u.sec
Add(t, d) == [t EXCEPT !.sec = @ + d]

\* What one fetch (request construction, HTTP call, decode) can produce: an
\* error, or n items with a pagination envelope that is missing ("none"),
\* has an empty next_uri ("empty") or a next_uri ("next").
Responses ==
  { [err |-> TRUE, n |-> 0, pagination |-> "none"] } \cup
  { [err |-> FALSE, n |-> k, pagination |-> p] :
      k \in ItemCounts, p \in {"none", "empty", "next"} }

\* The counter, saturating at PageCap.
Bump(n) == IF n < PageCap THEN n + 1 ELSE n

\* Logs keep the pages with an exact index.
Log(log, n, x) == IF n < PageCap THEN Append(log, x) ELSE log

signalerClosed == closeCount > 0

\* ------------------------------------------------------------- requests
AccountsRequests ==
  { [isNil |-> FALSE, AccountID |-> <<>>, MaxPage |-> m,
     ThrottleDurationMs |-> t] : m \in MaxPageInputs, t \in ThrottleInputs }
  \cup { [isNil |-> TRUE, AccountID |-> <<>>, MaxPage |-> 0,
          ThrottleDurationMs |-> 0] }

AddressesRequests ==
  { [isNil |-> FALSE, AccountID |-> a, MaxPage |-> m,
     ThrottleDurationMs |-> t] :
      a \in Strings, m \in MaxPageInputs, t \in ThrottleInputs }
  \cup { [isNil |-> TRUE, AccountID |-> <<>>, MaxPage |-> 0,
          ThrottleDurationMs |-> 0] }

\* durationIncrement of CandleSticks for granularity g, in seconds.
Increment(g) == IF g > 0 /\ g <= MaxGranularity THEN g ELSE DefaultIncrement

\* Spans from no increment at all to MaxWindows increments, exact multiples
\* and one second short of the next multiple.
Spans(g) == { k * Increment(g) + r : k \in 0..MaxWindows, r \in {0, Increment(g) - 1} }

StartTimes == {zeroTime} \cup { [sec |-> 100000, off |-> o] : o \in ZoneOffsets }

\* The zero time, a time before the start, and the start plus each span.
EndTimes(st, g) ==
  {zeroTime} \cup
  (IF st = zeroTime THEN { [sec |-> 100000, off |-> 0] }
   ELSE { Add(st, d) : d \in Spans(g) \cup {-1} })

CandleRequest(p, st, et, m, t, g) ==
  [isNil |-> FALSE, Product |-> p, StartTime |-> st, EndTime |-> et,
   MaxPageNumber |-> m, ThrottleDurationMs |-> t, GranularityInSeconds |-> g]

NilCandleRequest ==
  [isNil |-> TRUE, Product |-> <<>>, StartTime |-> zeroTime,
   EndTime |-> zeroTime, MaxPageNumber |-> 0, ThrottleDurationMs |-> 0,
   GranularityInSeconds |-> 0]

\* One window more than the pool has workers, of one second each, without a
\* throttle.
BusyRequest ==
  CandleRequest(<<"a">>, [sec |-> 100000, off |-> 0],
                [sec |-> 100000 + PoolWorkers + 1, off |-> 0], 0, NoThrottle, 1)

\* Every time range, granularity and MaxPageNumber without a throttle; every
\* throttle on the longest range; the busy request; every product and the
\* nil request.
CandleRequests ==
  UNION { UNION { { CandleRequest(<<"a">>, st, et, m, NoThrottle, g) :
                      et \in EndTimes(st, g), m \in {0, 1} } :
                  g \in GranularityInputs } :
          st \in StartTimes }
  \cup { CandleRequest(<<"a">>, [sec |-> 100000, off |-> 0],
                        [sec |-> 100000 + MaxWindows * DefaultIncrement, off |-> 0],
                        0, t, 0) : t \in ThrottleInputs }
  \cup { BusyRequest }
  \cup { CandleRequest(p, zeroTime, zeroTime, 0, 0, 0) : p \in Products }
  \cup { NilCandleRequest }

Init ==
  /\ kind \in {"accounts", "addresses", "candles"}
  /\ req \in (CASE kind = "accounts" -> AccountsRequests
                [] kind = "addresses" -> AddressesRequests
                [] kind = "candles" -> CandleRequests)
  /\ ret = "pending"
  /\ pc = "none"
  /\ pageNumber = 0
  /\ page = NilPage
  /\ nextURI = ""
  /\ throttleDuration = 0
  /\ timerFired = FALSE
  /\ onceDone = FALSE
  /\ closeCount = 0
  /\ panicked = FALSE
  /\ cancelCalls = 0
  /\ pagesClosed = FALSE
  /\ receiving = TRUE
  /\ delivered = <<>>
  /\ responses = <<>>
  /\ gpc = "none"
  /\ startTime = zeroTime
  /\ endTime = zeroTime
  /\ job = NoJob
  /\ jobs = <<>>
  /\ running = {}
  /\ finished = {}
  /\ csPage = NoPage
  /\ resClosed = FALSE
  /\ apiKey = Creds1.APIKey
  /\ apiSecret = Creds1.APISecret
  /\ passphrase = Creds1.Passphrase
  /\ rt = "nil"
  /\ mu = "unlocked"
  /\ spc = "idle"
  /\ creds = NilCreds
  /\ rpc = "idle"
  /\ hdr = NoHeaders
  /\ sent = NoHeaders
  /\ installed = { [key |-> Creds1.APIKey, secret |-> Creds1.APISecret,
                    passphrase |-> Creds1.Passphrase] }
  /\ setCalls = 0
  /\ requests = 0
  /\ op = "none"
  /\ arg = NilArg
  /\ opc = "none"
  /\ opRet = "pending"
  /\ httpErr = "pending"
  /\ httpRequests = 0
  /\ resp = NoResponse

\* ------------------------------------------------------------ canceler
\* Mutant: fn closes signaler without closeOnce.
cancelFn_NoOnce ==
  /\ onceDone' = TRUE
  /\ closeCount' = closeCount + 1
  /\ panicked' = (panicked \/ signalerClosed)

\* makeCanceler: fn closes signaler through closeOnce.
cancelFn ==
  /\ IF onceDone
       THEN UNCHANGED << onceDone, closeCount, panicked >>
       ELSE /\ onceDone' = TRUE
            /\ closeCount' = closeCount + 1
            /\ panicked' = (panicked \/ signalerClosed)

\* The caller invokes Cancel of the response it was given.
Cancel ==
  /\ ret = "ok"
  /\ cancelCalls < MaxCancelCalls
  /\ cancelCalls' = cancelCalls + 1
  /\ cancelFn
  /\ UNCHANGED candleVars
  /\ UNCHANGED clientVars
  /\ UNCHANGED opVars
  /\ UNCHANGED << kind, req, ret, pc, pageNumber, page, nextURI,
                  throttleDuration, timerFired, pagesClosed, receiving,
                  delivered, responses >>

\* ------------------------------------------------- sequential streamer
\* Mutants: the ceiling is reached one page early; MaxPage = 0 is a ceiling.
maxPageChecker_OffByOne(maxPage, pn) ==
  IF maxPage <= 0 THEN FALSE ELSE pn >= maxPage
maxPageChecker_ZeroBounded(maxPage, pn) ==
  IF maxPage < 0 THEN FALSE ELSE pn > maxPage

maxPageChecker(maxPage, pn) == IF maxPage <= 0 THEN FALSE ELSE pn > maxPage

\* Mutant: the AccountID is compared without TrimSpace.
AddressesValidate_NoTrim(r) ==
  IF r.isNil \/ r.AccountID = <<>> THEN "errEmptyAccountID" ELSE "nil"

\* AddressesRequest.Validate
AddressesValidate(r) ==
  IF r.isNil \/ TrimSpace(r.AccountID) = <<>> THEN "errEmptyAccountID" ELSE "nil"

\* The driver goroutine is spawned; the response is returned.
StartDriver ==
  /\ ret' = "ok"
  /\ pc' = "start"

ListAccounts ==
  /\ kind = "accounts"
  /\ ret = "pending"
  /\ StartDriver
  /\ UNCHANGED candleVars
  /\ UNCHANGED clientVars
  /\ UNCHANGED opVars
  /\ UNCHANGED << kind, req, pageNumber, page, nextURI, throttleDuration,
                  timerFired, onceDone, closeCount, panicked, cancelCalls,
                  pagesClosed, receiving, delivered, responses >>

ListAddresses ==
  /\ kind = "addresses"
  /\ ret = "pending"
  /\ IF AddressesValidate(req) # "nil"
       THEN ret' = AddressesValidate(req) /\ pc' = pc
       ELSE StartDriver
  /\ UNCHANGED candleVars
  /\ UNCHANGED clientVars
  /\ UNCHANGED opVars
  /\ UNCHANGED << kind, req, pageNumber, page, nextURI, throttleDuration,
                  timerFired, onceDone, closeCount, panicked, cancelCalls,
                  pagesClosed, receiving, delivered, responses >>

\* The throttle of ListAccounts and ListAddresses.
SeqThrottle(ms) == IF ms # NoThrottle /\ ms > 0 THEN ms ELSE 0

\* Mutant: the driver looks at the canceler before its first fetch.
DriverStart_CheckCancel ==
  /\ pc = "start"
  /\ kind \in {"accounts", "addresses"}
  /\ throttleDuration' = SeqThrottle(req.ThrottleDurationMs)
  /\ nextURI' = "first"
  /\ pageNumber' = 0
  /\ IF signalerClosed
       THEN pc' = "done" /\ pagesClosed' = TRUE
       ELSE pc' = "fetching" /\ UNCHANGED pagesClosed
  /\ UNCHANGED candleVars
  /\ UNCHANGED clientVars
  /\ UNCHANGED opVars
  /\ UNCHANGED << kind, req, ret, page, timerFired, onceDone, closeCount,
                  panicked, cancelCalls, receiving, delivered, responses >>

\* The driver runs up to the first fetch: throttle, first URI, pageNumber 0.
DriverStart ==
  /\ pc = "start"
  /\ kind \in {"accounts", "addresses"}
  /\ throttleDuration' = SeqThrottle(req.ThrottleDurationMs)
  /\ nextURI' = "first"
  /\ pageNumber' = 0
  /\ pc' = "fetching"
  /\ UNCHANGED candleVars
  /\ UNCHANGED clientVars
  /\ UNCHANGED opVars
  /\ UNCHANGED << kind, req, ret, page, timerFired, onceDone, closeCount,
                  panicked, cancelCalls, pagesClosed, receiving, delivered,
                  responses >>

\* The fetch of page pageNumber returns, the driver builds the page.
DriverFetch ==
  /\ pc = "fetching"
  /\ \E r \in Responses :
       /\ page' = [PageNumber |-> pageNumber,
                   n |-> IF r.err THEN 0 ELSE r.n, Err |-> r.err]
       /\ nextURI' = IF ~r.err /\ r.pagination = "next" THEN "next" ELSE ""
       /\ responses' = Log(responses, pageNumber, r)
  /\ pc' = "sending"
  /\ UNCHANGED candleVars
  /\ UNCHANGED clientVars
  /\ UNCHANGED opVars
  /\ UNCHANGED << kind, req, ret, pageNumber, throttleDuration, timerFired,
                  onceDone, closeCount, panicked, cancelCalls, pagesClosed,
                  receiving, delivered >>

\* pagesChan <- page meets the consumer's receive; the driver then runs to
\* its return or to the select.  newPageNumber is the counter after the
\* send, errPc the driver's position after it has sent an error page.
DriverSendWith(newPageNumber, errPc) ==
  /\ pc = "sending"
  /\ receiving
  /\ delivered' = Log(delivered, page.PageNumber, page)
  /\ IF page.Err
       THEN /\ pc' = errPc
            /\ pagesClosed' = (errPc = "done")
            /\ UNCHANGED << pageNumber, timerFired >>
       ELSE /\ pageNumber' = newPageNumber
            /\ IF maxPageChecker(req.MaxPage, newPageNumber) \/ page.n = 0
                 THEN /\ pc' = "done"
                      /\ pagesClosed' = TRUE
                      /\ UNCHANGED timerFired
                 ELSE /\ pc' = "select"
                      /\ timerFired' = (throttleDuration = 0)
                      /\ UNCHANGED pagesClosed
  /\ UNCHANGED candleVars
  /\ UNCHANGED clientVars
  /\ UNCHANGED opVars
  /\ UNCHANGED << kind, req, ret, page, nextURI, throttleDuration, onceDone,
                  closeCount, panicked, cancelCalls, receiving, responses >>

\* Mutants: the counter skips an index; an error page is followed by a retry.
DriverSend_SkipIndex == DriverSendWith(Bump(Bump(pageNumber)), "done")
DriverSend_RetryOnErr == DriverSendWith(Bump(pageNumber), "fetching")

DriverSend == DriverSendWith(Bump(pageNumber), "done")

\* The select of the driver.  At pc = "select" the driver is about to poll
\* its two cases; when neither is ready it blocks (pc = "waiting") and the
\* first event to happen decides the case.  The timer of a zero throttle is
\* ready at the poll (timerFired is set on entry); a positive one may expire
\* before the poll when the goroutine is delayed.

\* The timer of time.After(throttleDuration) expires before the poll.
TimerFire ==
  /\ pc = "select"
  /\ ~timerFired
  /\ timerFired' = TRUE
  /\ UNCHANGED candleVars
  /\ UNCHANGED clientVars
  /\ UNCHANGED opVars
  /\ UNCHANGED << kind, req, ret, pc, pageNumber, page, nextURI,
                  throttleDuration, onceDone, closeCount, panicked,
                  cancelCalls, pagesClosed, receiving, delivered, responses >>

\* Mutant: the loop goes on to the next fetch whatever nextURI is.
AfterTimerCase_NoBreak ==
  /\ pc' = "fetching"
  /\ UNCHANGED pagesClosed
  /\ UNCHANGED candleVars
  /\ UNCHANGED clientVars
  /\ UNCHANGED opVars
  /\ UNCHANGED << kind, req, ret, pageNumber, page, nextURI, throttleDuration,
                  onceDone, closeCount, panicked, cancelCalls, receiving,
                  delivered, responses >>

\* After the timer case: an empty nextURI breaks out of the loop, otherwise
\* the next fetch is initiated.
AfterTimerCase ==
  /\ IF nextURI = ""
       THEN pc' = "done" /\ pagesClosed' = TRUE
       ELSE pc' = "fetching" /\ UNCHANGED pagesClosed
  /\ UNCHANGED candleVars
  /\ UNCHANGED clientVars
  /\ UNCHANGED opVars
  /\ UNCHANGED << kind, req, ret, pageNumber, page, nextURI, throttleDuration,
                  onceDone, closeCount, panicked, cancelCalls, receiving,
                  delivered, responses >>

\* The poll finds the timer channel ready and takes it, whether or not the
\* canceler is ready too.
SelectTimer ==
  /\ pc = "select"
  /\ timerFired
  /\ AfterTimerCase
  /\ UNCHANGED timerFired

\* The poll finds no case ready: the driver blocks.
SelectBlock ==
  /\ pc = "select"
  /\ ~timerFired
  /\ ~signalerClosed
  /\ pc' = "waiting"
  /\ UNCHANGED candleVars
  /\ UNCHANGED clientVars
  /\ UNCHANGED opVars
  /\ UNCHANGED << kind, req, ret, pageNumber, page, nextURI, throttleDuration,
                  timerFired, onceDone, closeCount, panicked, cancelCalls,
                  pagesClosed, receiving, delivered, responses >>

\* The timer expires while the driver is blocked and the canceler is open.
WaitTimer ==
  /\ pc = "waiting"
  /\ ~signalerClosed
  /\ timerFired' = TRUE
  /\ AfterTimerCase

\* Mutant: the canceler case goes on with the loop.
SelectCancel_Continue ==
  /\ pc \in {"select", "waiting"}
  /\ signalerClosed
  /\ pc' = "fetching"
  /\ UNCHANGED candleVars
  /\ UNCHANGED clientVars
  /\ UNCHANGED opVars
  /\ UNCHANGED << kind, req, ret, pageNumber, page, nextURI, throttleDuration,
                  timerFired, onceDone, closeCount, panicked, cancelCalls,
                  pagesClosed, receiving, delivered, responses >>

\* The canceler case is taken, at the poll or by the close that wakes the
\* blocked driver: return.
SelectCancel ==
  /\ pc \in {"select", "waiting"}
  /\ signalerClosed
  /\ pc' = "done"
  /\ pagesClosed' = TRUE
  /\ UNCHANGED candleVars
  /\ UNCHANGED clientVars
  /\ UNCHANGED opVars
  /\ UNCHANGED << kind, req, ret, pageNumber, page, nextURI, throttleDuration,
                  timerFired, onceDone, closeCount, panicked, cancelCalls,
                  receiving, delivered, responses >>

\* ------------------------------------------- windowed concurrent fetcher
\* CandleStickRequest.Validate
CandleValidate(r) ==
  IF r.isNil \/ r.Product = <<>> THEN "errBlankProduct" ELSE "nil"

canPaginateTime(r) ==
  After(r.StartTime, zeroTime) /\ After(r.EndTime, r.StartTime)

durationIncrement(r) == Increment(r.GranularityInSeconds)

\* maxPageNumber as the closures see it: the caller's value, replaced by the
\* number of whole increments in the span when the request can be paginated.
maxPageNumber(r) ==
  IF After(r.StartTime, zeroTime) /\ canPaginateTime(r)
    THEN Sub(r.EndTime, r.StartTime) \div durationIncrement(r)
    ELSE r.MaxPageNumber

\* Mutants: the cap ends the generator one window late; unset time bounds
\* do not end it.
shouldTerminate_PastCap(r, st, et, pn) ==
  IF Equal(r.StartTime, zeroTime) \/ Equal(r.EndTime, zeroTime) THEN TRUE
  ELSE IF After(st, r.EndTime) \/ After(et, r.EndTime) THEN TRUE
  ELSE maxPageNumber(r) > 0 /\ pn > maxPageNumber(r)
shouldTerminate_IgnoreUnset(r, st, et, pn) ==
  IF After(st, r.EndTime) \/ After(et, r.EndTime) THEN TRUE
  ELSE maxPageNumber(r) > 0 /\ pn >= maxPageNumber(r)

shouldTerminate(r, st, et, pn) ==
  IF Equal(r.StartTime, zeroTime) \/ Equal(r.EndTime, zeroTime) THEN TRUE
  ELSE IF After(st, r.EndTime) \/ After(et, r.EndTime) THEN TRUE
  ELSE maxPageNumber(r) > 0 /\ pn >= maxPageNumber(r)

\* iso8601 prints the wall clock of the value's location followed by a
\* literal Z: the text carries the reading, not the zone.
iso8601(t) == [wall |-> t.sec + t.off]

\* The throttle of CandleSticks.
CandleThrottle(ms) ==
  IF ms # NoThrottle
    THEN IF ms > 0 THEN ms ELSE DefaultCandleThrottle
    ELSE 0

CandleSticks ==
  /\ kind = "candles"
  /\ ret = "pending"
  /\ IF CandleValidate(req) # "nil"
       THEN ret' = CandleValidate(req) /\ pc' = pc
       ELSE StartDriver
  /\ UNCHANGED candleVars
  /\ UNCHANGED clientVars
  /\ UNCHANGED opVars
  /\ UNCHANGED << kind, req, pageNumber, page, nextURI, throttleDuration,
                  timerFired, onceDone, closeCount, panicked, cancelCalls,
                  pagesClosed, receiving, delivered, responses >>

\* One pass of the generator loop up to the send: the request of the window
\* [st, et) is formatted and copied into the job numbered pn.
NewJob(st, et, pn) ==
  [id |-> pn,
   csr |-> [Product |-> req.Product, StartTime |-> iso8601(st),
            EndTime |-> iso8601(et)]]

\* Mutant: the generator numbers its first window 0.
CandleStart_FromZero ==
  /\ pc = "start"
  /\ kind = "candles"
  /\ throttleDuration' = CandleThrottle(req.ThrottleDurationMs)
  /\ startTime' = req.StartTime
  /\ endTime' = IF canPaginateTime(req)
                  THEN Add(req.StartTime, durationIncrement(req))
                  ELSE req.EndTime
  /\ pageNumber' = 0
  /\ job' = NewJob(startTime', endTime', 0)
  /\ gpc' = "send"
  /\ pc' = "range"
  /\ UNCHANGED clientVars
  /\ UNCHANGED opVars
  /\ UNCHANGED << kind, req, ret, page, nextURI, timerFired, onceDone,
                  closeCount, panicked, cancelCalls, pagesClosed, receiving,
                  delivered, responses, jobs, running, finished, csPage,
                  resClosed >>

\* The goroutine of CandleSticks starts: throttle, first window, the
\* generator goroutine (which runs up to its first send) and the pool.
CandleStart ==
  /\ pc = "start"
  /\ kind = "candles"
  /\ throttleDuration' = CandleThrottle(req.ThrottleDurationMs)
  /\ startTime' = req.StartTime
  /\ endTime' = IF canPaginateTime(req)
                  THEN Add(req.StartTime, durationIncrement(req))
                  ELSE req.EndTime
  /\ pageNumber' = 1
  /\ job' = NewJob(startTime', endTime', 1)
  /\ gpc' = "send"
  /\ pc' = "range"
  /\ UNCHANGED clientVars
  /\ UNCHANGED opVars
  /\ UNCHANGED << kind, req, ret, page, nextURI, timerFired, onceDone,
                  closeCount, panicked, cancelCalls, pagesClosed, receiving,
                  delivered, responses, jobs, running, finished, csPage,
                  resClosed >>

\* The pool takes a job from jobsChan while a worker is free.
PoolAccepts == Cardinality(running) + Cardinality(finished) < PoolWorkers

\* Mutant: the next window starts one second after the end of this one.
GenSubmit_Gap ==
  /\ gpc = "send"
  /\ PoolAccepts
  /\ jobs' = Append(jobs, job)
  /\ running' = running \cup {job.id}
  /\ job' = NoJob
  /\ IF shouldTerminate(req, startTime, endTime, pageNumber)
       THEN /\ gpc' = "done"
            /\ UNCHANGED << startTime, endTime, timerFired >>
       ELSE /\ startTime' = Add(endTime, 1)
            /\ endTime' = Add(endTime, durationIncrement(req))
            /\ gpc' = "select"
            /\ timerFired' = (throttleDuration = 0)
  /\ UNCHANGED clientVars
  /\ UNCHANGED opVars
  /\ UNCHANGED << kind, req, ret, pc, pageNumber, page, nextURI,
                  throttleDuration, onceDone, closeCount, panicked,
                  cancelCalls, pagesClosed, receiving, delivered, responses,
                  finished, csPage, resClosed >>

\* jobsChan <- job meets the pool's receive; the generator then returns
\* (closing jobsChan) or moves to the next window and to the select.
GenSubmit ==
  /\ gpc = "send"
  /\ PoolAccepts
  /\ jobs' = Append(jobs, job)
  /\ running' = running \cup {job.id}
  /\ job' = NoJob
  /\ IF shouldTerminate(req, startTime, endTime, pageNumber)
       THEN /\ gpc' = "done"
            /\ UNCHANGED << startTime, endTime, timerFired >>
       ELSE /\ startTime' = endTime
            /\ endTime' = Add(endTime, durationIncrement(req))
            /\ gpc' = "select"
            /\ timerFired' = (throttleDuration = 0)
  /\ UNCHANGED clientVars
  /\ UNCHANGED opVars
  /\ UNCHANGED << kind, req, ret, pc, pageNumber, page, nextURI,
                  throttleDuration, onceDone, closeCount, panicked,
                  cancelCalls, pagesClosed, receiving, delivered, responses,
                  finished, csPage, resClosed >>

\* The timer of time.After(throttleDuration) expires before the poll.
GenTimerFire ==
  /\ gpc = "select"
  /\ ~timerFired
  /\ timerFired' = TRUE
  /\ UNCHANGED candleVars
  /\ UNCHANGED clientVars
  /\ UNCHANGED opVars
  /\ UNCHANGED << kind, req, ret, pc, pageNumber, page, nextURI,
                  throttleDuration, onceDone, closeCount, panicked,
                  cancelCalls, pagesClosed, receiving, delivered, responses >>

\* Mutant: the jobs are given the one request the loop keeps rewriting, not
\* a copy of it.
GenAfterTimerCase_SharedRequest ==
  /\ pageNumber' = pageNumber + 1
  /\ job' = NewJob(startTime, endTime, pageNumber + 1)
  /\ jobs' = [i \in 1..Len(jobs) |-> [jobs[i] EXCEPT !.csr = job'.csr]]
  /\ gpc' = "send"
  /\ UNCHANGED clientVars
  /\ UNCHANGED opVars
  /\ UNCHANGED << kind, req, ret, pc, page, nextURI, throttleDuration,
                  onceDone, closeCount, panicked, cancelCalls, pagesClosed,
                  receiving, delivered, responses, startTime, endTime,
                  running, finished, csPage, resClosed >>

\* Mutant: the loop builds the next job without advancing pageNumber.
GenAfterTimerCase_SameNumber ==
  /\ pageNumber' = pageNumber
  /\ job' = NewJob(startTime, endTime, pageNumber)
  /\ gpc' = "send"
  /\ UNCHANGED clientVars
  /\ UNCHANGED opVars
  /\ UNCHANGED << kind, req, ret, pc, page, nextURI, throttleDuration,
                  onceDone, closeCount, panicked, cancelCalls, pagesClosed,
                  receiving, delivered, responses, startTime, endTime, jobs,
                  running, finished, csPage, resClosed >>

\* After the timer case the loop builds the next job and sends it.
GenAfterTimerCase ==
  /\ pageNumber' = pageNumber + 1
  /\ job' = NewJob(startTime, endTime, pageNumber + 1)
  /\ gpc' = "send"
  /\ UNCHANGED clientVars
  /\ UNCHANGED opVars
  /\ UNCHANGED << kind, req, ret, pc, page, nextURI, throttleDuration,
                  onceDone, closeCount, panicked, cancelCalls, pagesClosed,
                  receiving, delivered, responses, startTime, endTime, jobs,
                  running, finished, csPage, resClosed >>

GenSelectTimer ==
  /\ gpc = "select"
  /\ timerFired
  /\ GenAfterTimerCase
  /\ UNCHANGED timerFired

GenSelectBlock ==
  /\ gpc = "select"
  /\ ~timerFired
  /\ ~signalerClosed
  /\ gpc' = "waiting"
  /\ UNCHANGED clientVars
  /\ UNCHANGED opVars
  /\ UNCHANGED << kind, req, ret, pc, pageNumber, page, nextURI,
                  throttleDuration, timerFired, onceDone, closeCount, panicked,
                  cancelCalls, pagesClosed, receiving, delivered, responses,
                  startTime, endTime, job, jobs, running, finished, csPage,
                  resClosed >>

GenWaitTimer ==
  /\ gpc = "waiting"
  /\ ~signalerClosed
  /\ timerFired' = TRUE
  /\ GenAfterTimerCase

\* The canceler case: the generator returns and jobsChan is closed.
GenSelectCancel ==
  /\ gpc \in {"select", "waiting"}
  /\ signalerClosed
  /\ gpc' = "done"
  /\ UNCHANGED clientVars
  /\ UNCHANGED opVars
  /\ UNCHANGED << kind, req, ret, pc, pageNumber, page, nextURI,
                  throttleDuration, timerFired, onceDone, closeCount, panicked,
                  cancelCalls, pagesClosed, receiving, delivered, responses,
                  startTime, endTime, job, jobs, running, finished, csPage,
                  resClosed >>

\* What Do of the job id can return: an error, or n items.  The fetches of
\* the busy request all return items: it varies the load of the pool, the
\* other requests vary the outcomes.
DoOutcomes(id) ==
  IF req = BusyRequest
    THEN { [id |-> id, n |-> 1, err |-> FALSE] }
    ELSE { [id |-> id, n |-> 0, err |-> TRUE] } \cup
         { [id |-> id, n |-> k, err |-> FALSE] : k \in ItemCounts }

\* The log of the outcomes of the windows, kept in window order.
LogById(log, r) ==
  LET before == SelectSeq(log, LAMBDA x : x.id < r.id)
      after == SelectSeq(log, LAMBDA x : x.id >= r.id)
  IN  before \o <<r>> \o after

\* candleStickGetter.Do of a running job returns items or an error.
JobDo ==
  /\ \E id \in running :
       \E r \in DoOutcomes(id) :
         /\ running' = running \ {id}
         /\ finished' = finished \cup {r}
         /\ responses' = LogById(responses, r)
  /\ UNCHANGED clientVars
  /\ UNCHANGED opVars
  /\ UNCHANGED << kind, req, ret, pc, pageNumber, page, nextURI,
                  throttleDuration, timerFired, onceDone, closeCount, panicked,
                  cancelCalls, pagesClosed, receiving, delivered, gpc,
                  startTime, endTime, job, jobs, csPage, resClosed >>

\* Mutant: the forwarding loop sends a page only for a result with a value.
Forward_SkipNil ==
  /\ pc = "range"
  /\ \E r \in finished :
       /\ finished' = finished \ {r}
       /\ IF r.err
            THEN csPage' = csPage /\ pc' = "range"
            ELSE /\ csPage' = [PageNumber |-> r.id, n |-> r.n, Err |-> r.err]
                 /\ pc' = "forwarding"
  /\ UNCHANGED clientVars
  /\ UNCHANGED opVars
  /\ UNCHANGED << kind, req, ret, pageNumber, page, nextURI, throttleDuration,
                  timerFired, onceDone, closeCount, panicked, cancelCalls,
                  pagesClosed, receiving, delivered, responses, gpc,
                  startTime, endTime, job, jobs, running, resClosed >>

\* Mutant: the forwarding loop numbers its pages in the order of arrival.
Forward_ArrivalNumber ==
  /\ pc = "range"
  /\ \E r \in finished :
       /\ finished' = finished \ {r}
       /\ csPage' = [PageNumber |-> Len(delivered) + 1, n |-> r.n,
                     Err |-> r.err]
  /\ pc' = "forwarding"
  /\ UNCHANGED clientVars
  /\ UNCHANGED opVars
  /\ UNCHANGED << kind, req, ret, pageNumber, page, nextURI, throttleDuration,
                  timerFired, onceDone, closeCount, panicked, cancelCalls,
                  pagesClosed, receiving, delivered, responses, gpc,
                  startTime, endTime, job, jobs, running, resClosed >>

\* Mutant: the error of a result stays set for the pages built after it.
Forward_StickyErr ==
  /\ pc = "range"
  /\ \E r \in finished :
       /\ finished' = finished \ {r}
       /\ csPage' = [PageNumber |-> r.id, n |-> r.n,
                     Err |-> r.err \/ \E i \in 1..Len(delivered) :
                                       delivered[i].Err]
  /\ pc' = "forwarding"
  /\ UNCHANGED clientVars
  /\ UNCHANGED opVars
  /\ UNCHANGED << kind, req, ret, pageNumber, page, nextURI, throttleDuration,
                  timerFired, onceDone, closeCount, panicked, cancelCalls,
                  pagesClosed, receiving, delivered, responses, gpc,
                  startTime, endTime, job, jobs, running, resClosed >>

\* The forwarding loop receives a result from resChan and builds its page.
Forward ==
  /\ pc = "range"
  /\ \E r \in finished :
       /\ finished' = finished \ {r}
       /\ csPage' = [PageNumber |-> r.id, n |-> r.n, Err |-> r.err]
  /\ pc' = "forwarding"
  /\ UNCHANGED clientVars
  /\ UNCHANGED opVars
  /\ UNCHANGED << kind, req, ret, pageNumber, page, nextURI, throttleDuration,
                  timerFired, onceDone, closeCount, panicked, cancelCalls,
                  pagesClosed, receiving, delivered, responses, gpc,
                  startTime, endTime, job, jobs, running, resClosed >>

\* cspChan <- csPage meets the consumer's receive.
CandleSend ==
  /\ pc = "forwarding"
  /\ receiving
  /\ delivered' = Append(delivered, csPage)
  /\ csPage' = NoPage
  /\ pc' = "range"
  /\ UNCHANGED clientVars
  /\ UNCHANGED opVars
  /\ UNCHANGED << kind, req, ret, pageNumber, page, nextURI, throttleDuration,
                  timerFired, onceDone, closeCount, panicked, cancelCalls,
                  pagesClosed, receiving, responses, gpc, startTime, endTime,
                  job, jobs, running, finished, resClosed >>

\* The pool closes resChan once jobsChan is closed and every result of a job
\* it took has been handed over.
PoolClose ==
  /\ gpc = "done"
  /\ running = {}
  /\ finished = {}
  /\ ~resClosed
  /\ resClosed' = TRUE
  /\ UNCHANGED clientVars
  /\ UNCHANGED opVars
  /\ UNCHANGED << kind, req, ret, pc, pageNumber, page, nextURI,
                  throttleDuration, timerFired, onceDone, closeCount, panicked,
                  cancelCalls, pagesClosed, receiving, delivered, responses,
                  gpc, startTime, endTime, job, jobs, running, finished,
                  csPage >>

\* Mutant: the goroutine returns without closing cspChan.
ForwardEnd_NoClose ==
  /\ pc = "range"
  /\ resClosed
  /\ pc' = "done"
  /\ UNCHANGED clientVars
  /\ UNCHANGED opVars
  /\ UNCHANGED << kind, req, ret, pageNumber, page, nextURI, throttleDuration,
                  timerFired, onceDone, closeCount, panicked, cancelCalls,
                  pagesClosed, receiving, delivered, responses, gpc,
                  startTime, endTime, job, jobs, running, finished, csPage,
                  resClosed >>

\* The range over resChan ends: the goroutine returns, cspChan is closed.
ForwardEnd ==
  /\ pc = "range"
  /\ resClosed
  /\ pc' = "done"
  /\ pagesClosed' = TRUE
  /\ UNCHANGED clientVars
  /\ UNCHANGED opVars
  /\ UNCHANGED << kind, req, ret, pageNumber, page, nextURI, throttleDuration,
                  timerFired, onceDone, closeCount, panicked, cancelCalls,
                  receiving, delivered, responses, gpc, startTime, endTime,
                  job, jobs, running, finished, csPage, resClosed >>

\* The consumer, having invoked Cancel, stops receiving from PagesChan.
ConsumerStop ==
  /\ ret = "ok"
  /\ signalerClosed
  /\ receiving
  /\ receiving' = FALSE
  /\ UNCHANGED candleVars
  /\ UNCHANGED clientVars
  /\ UNCHANGED opVars
  /\ UNCHANGED << kind, req, ret, pc, pageNumber, page, nextURI,
                  throttleDuration, timerFired, onceDone, closeCount, panicked,
                  cancelCalls, pagesClosed, delivered, responses >>

\* ------------------------------------------------ client configuration
\* SetCredentials: nil credentials return at once; others take the lock.
SetCredentials ==
  /\ spc = "idle"
  /\ setCalls < MaxSetCalls
  /\ setCalls' = setCalls + 1
  /\ \E c \in CredentialsInputs :
       IF c.isNil
         THEN UNCHANGED << mu, spc, creds >>
         ELSE /\ mu = "unlocked"
              /\ mu' = "locked"
              /\ spc' = "apiKey"
              /\ creds' = c
  /\ UNCHANGED streamVars
  /\ UNCHANGED opVars
  /\ UNCHANGED << apiKey, apiSecret, passphrase, rt, rpc, hdr, sent,
                  installed, requests >>

\* c.apiKey = creds.APIKey
SetCredentialsKey ==
  /\ spc = "apiKey"
  /\ apiKey' = creds.APIKey
  /\ spc' = "apiSecret"
  /\ UNCHANGED streamVars
  /\ UNCHANGED opVars
  /\ UNCHANGED << apiSecret, passphrase, rt, mu, creds, rpc, hdr, sent,
                  installed, setCalls, requests >>

\* c.apiSecret = creds.APISecret
SetCredentialsSecret ==
  /\ spc = "apiSecret"
  /\ apiSecret' = creds.APISecret
  /\ spc' = "passphrase"
  /\ UNCHANGED streamVars
  /\ UNCHANGED opVars
  /\ UNCHANGED << apiKey, passphrase, rt, mu, creds, rpc, hdr, sent,
                  installed, setCalls, requests >>

\* c.passphrase = creds.Passphrase; c.mu.Unlock()
SetCredentialsPassphrase ==
  /\ spc = "passphrase"
  /\ passphrase' = creds.Passphrase
  /\ mu' = "unlocked"
  /\ spc' = "idle"
  /\ creds' = NilCreds
  /\ installed' = installed \cup
                    { [key |-> apiKey, secret |-> apiSecret,
                       passphrase |-> creds.Passphrase] }
  /\ UNCHANGED streamVars
  /\ UNCHANGED opVars
  /\ UNCHANGED << apiKey, apiSecret, rt, rpc, hdr, sent, setCalls, requests >>

\* SetPassphrase: the one write, between Lock and Unlock.
SetPassphrase ==
  /\ mu = "unlocked"
  /\ setCalls < MaxSetCalls
  /\ setCalls' = setCalls + 1
  /\ \E p \in PassphraseInputs :
       /\ passphrase' = p
       /\ installed' = installed \cup
                         { [key |-> apiKey, secret |-> apiSecret,
                            passphrase |-> p] }
  /\ UNCHANGED streamVars
  /\ UNCHANGED opVars
  /\ UNCHANGED << apiKey, apiSecret, rt, mu, spc, creds, rpc, hdr, sent,
                  requests >>

\* SetHTTPRoundTripper: the one write, between Lock and the deferred Unlock.
SetHTTPRoundTripper ==
  /\ mu = "unlocked"
  /\ setCalls < MaxSetCalls
  /\ setCalls' = setCalls + 1
  /\ \E t \in RoundTrippers : rt' = t
  /\ UNCHANGED streamVars
  /\ UNCHANGED opVars
  /\ UNCHANGED << apiKey, apiSecret, passphrase, mu, spc, creds, rpc, hdr,
                  sent, installed, requests >>

\* doAuthAndReq is called for a request; signAndSetHeaders begins.
doAuthAndReq ==
  /\ rpc = "idle"
  /\ requests < MaxRequests
  /\ requests' = requests + 1
  /\ hdr' = NoHeaders
  /\ rpc' = "passphraseCheck"
  /\ UNCHANGED streamVars
  /\ UNCHANGED opVars
  /\ UNCHANGED << apiKey, apiSecret, passphrase, rt, mu, spc, creds, sent,
                  installed, setCalls >>

\* if c.passphrase != "": the field is read without the lock.
signPassphraseCheck ==
  /\ rpc = "passphraseCheck"
  /\ rpc' = IF passphrase # "" THEN "passphraseSet" ELSE "apiKey"
  /\ UNCHANGED streamVars
  /\ UNCHANGED opVars
  /\ UNCHANGED << apiKey, apiSecret, passphrase, rt, mu, spc, creds, hdr,
                  sent, installed, setCalls, requests >>

\* req.Header.Set(hdrPassphraseKey, c.passphrase): a second read.
signPassphraseSet ==
  /\ rpc = "passphraseSet"
  /\ hdr' = [hdr EXCEPT !.passphrase = passphrase]
  /\ rpc' = "apiKey"
  /\ UNCHANGED streamVars
  /\ UNCHANGED opVars
  /\ UNCHANGED << apiKey, apiSecret, passphrase, rt, mu, spc, creds, sent,
                  installed, setCalls, requests >>

\* req.Header.Set(hdrAPIKeyKey, c.apiKey)
signAPIKey ==
  /\ rpc = "apiKey"
  /\ hdr' = [hdr EXCEPT !.key = apiKey]
  /\ rpc' = "hmacSignature"
  /\ UNCHANGED streamVars
  /\ UNCHANGED opVars
  /\ UNCHANGED << apiKey, apiSecret, passphrase, rt, mu, spc, creds, sent,
                  installed, setCalls, requests >>

\* hmacSignature keys the MAC with c.apiSecret.
hmacSignature ==
  /\ rpc = "hmacSignature"
  /\ hdr' = [hdr EXCEPT !.secret = apiSecret]
  /\ rpc' = "httpClient"
  /\ UNCHANGED streamVars
  /\ UNCHANGED opVars
  /\ UNCHANGED << apiKey, apiSecret, passphrase, rt, mu, spc, creds, sent,
                  installed, setCalls, requests >>

\* doHTTPReq: httpClient reads c.rt between RLock and RUnlock and the request
\* is handed to that transport.
httpClient ==
  /\ rpc = "httpClient"
  /\ mu = "unlocked"
  /\ sent' = [hdr EXCEPT !.rt = rt]
  /\ hdr' = NoHeaders
  /\ rpc' = "idle"
  /\ UNCHANGED streamVars
  /\ UNCHANGED opVars
  /\ UNCHANGED << apiKey, apiSecret, passphrase, rt, mu, spc, creds,
                  installed, setCalls, requests >>

\* ------------------------------------------------ single-call operations
\* CreateAccountRequest.Validate
CreateAccountValidate(a) ==
  IF a.isNil \/ TrimSpace(a.Name) = <<>> THEN "errBlankName" ELSE "nil"

\* Mutant: the name is not checked.
UpdateAccountValidate_NoNameCheck(a) ==
  IF a.isNil \/ TrimSpace(a.ID) = <<>> THEN "errEmptyAccountID" ELSE "nil"

\* UpdateAccountRequest.Validate
UpdateAccountValidate(a) ==
  IF a.isNil \/ TrimSpace(a.ID) = <<>> THEN "errEmptyAccountID"
  ELSE IF TrimSpace(a.Name) = <<>> THEN "errBlankName"
  ELSE "nil"

\* The check SetAccountAsPrimary, DeleteAccountByID and FindAccountByID make
\* on the trimmed accountID.
AccountIDValidate(a) ==
  IF TrimSpace(a.accountID) = <<>> THEN "errEmptyAccountID" ELSE "nil"

\* Mutant: the side is checked before the price and the size.
OrderValidate_SideFirst(o) ==
  IF o.isNil \/ o.Product = <<>> THEN "errBlankProduct"
  ELSE IF o.Side = "" THEN "errBlankSide"
  ELSE IF o.Price <= 0 /\ o.Size <= 0 THEN "errBlankPriceOrSize"
  ELSE IF o.CancelAfter # "" /\ o.TimeInForce # GTT
    THEN "errCancelAfterWithoutGTT"
  ELSE "nil"

\* Order.Validate
OrderValidate(o) ==
  IF o.isNil \/ o.Product = <<>> THEN "errBlankProduct"
  ELSE IF o.Price <= 0 /\ o.Size <= 0 THEN "errBlankPriceOrSize"
  ELSE IF o.Side = "" THEN "errBlankSide"
  ELSE IF o.CancelAfter # "" /\ o.TimeInForce # GTT
    THEN "errCancelAfterWithoutGTT"
  ELSE "nil"

\* An operation is called with the argument a: a failed validation is
\* returned at once; otherwise the request is built and handed to
\* doAuthAndReq.
Call(name, a, err) ==
  /\ opc = "none"
  /\ op' = name
  /\ arg' = a
  /\ IF err # "nil"
       THEN /\ opRet' = err
            /\ opc' = "done"
            /\ UNCHANGED httpRequests
       ELSE /\ opRet' = opRet
            /\ opc' = "inflight"
            /\ httpRequests' = httpRequests + 1
  /\ UNCHANGED << httpErr, resp >>
  /\ UNCHANGED streamVars
  /\ UNCHANGED clientVars

CreateAccount ==
  \E a \in CreateAccountInputs :
    Call("CreateAccount", a, CreateAccountValidate(a))

UpdateAccount ==
  \E a \in UpdateAccountInputs :
    Call("UpdateAccount", a, UpdateAccountValidate(a))

SetAccountAsPrimary ==
  \E a \in AccountIDInputs :
    Call("SetAccountAsPrimary", a, AccountIDValidate(a))

DeleteAccountByID ==
  \E a \in AccountIDInputs :
    Call("DeleteAccountByID", a, AccountIDValidate(a))

FindAccountByID ==
  \E a \in AccountIDInputs :
    Call("FindAccountByID", a, AccountIDValidate(a))

Order ==
  \E o \in OrderInputs : Call("Order", o, OrderValidate(o))

\* otils.StatusOK
StatusOK(code) == 200 <= code /\ code <= 299

\* The error doHTTPReq returns for what the transport gave: "nil" for none.
doHTTPReq(r) ==
  IF r.transportErr THEN "transport"
  ELSE IF StatusOK(r.StatusCode)
    THEN IF r.Body.present /\ ~r.Body.readable THEN "read" ELSE "nil"
  ELSE IF ~r.Body.present THEN "status"
  ELSE IF ~r.Body.readable THEN "status"
  ELSE IF r.Body.len > 3 THEN "body"
  ELSE "nil"

\* The blob doHTTPReq returns decodes as JSON: it is the body of a 2xx
\* response, and nil for every other.
Decodes(r) ==
  /\ StatusOK(r.StatusCode)
  /\ r.Body.present
  /\ r.Body.json

\* The transport answers; doHTTPReq returns and the operation with it:
\* DeleteAccountByID returns the error as it is, the others decode the blob
\* when there is no error.
HTTPResponse ==
  /\ opc = "inflight"
  /\ \E r \in HTTPResponses :
       /\ resp' = r
       /\ httpErr' = doHTTPReq(r)
       /\ opRet' = IF doHTTPReq(r) # "nil" THEN doHTTPReq(r)
                   ELSE IF op = "DeleteAccountByID" THEN "nil"
                   ELSE IF Decodes(r) THEN "nil" ELSE "unmarshal"
  /\ opc' = "done"
  /\ UNCHANGED << op, arg, httpRequests >>
  /\ UNCHANGED streamVars
  /\ UNCHANGED clientVars

Next ==
  \/ ListAccounts
  \/ ListAddresses
  \/ Cancel
  \/ DriverStart
  \/ DriverFetch
  \/ DriverSend
  \/ TimerFire
  \/ SelectTimer
  \/ SelectBlock
  \/ WaitTimer
  \/ SelectCancel
  \/ CandleSticks
  \/ CandleStart
  \/ GenSubmit
  \/ GenTimerFire
  \/ GenSelectTimer
  \/ GenSelectBlock
  \/ GenWaitTimer
  \/ GenSelectCancel
  \/ JobDo
  \/ Forward
  \/ CandleSend
  \/ PoolClose
  \/ ForwardEnd
  \/ ConsumerStop

Spec == Init /\ [][Next]_vars

\* The sequential streamer with a consumer that keeps receiving.  The driver
\* runs whenever it can; a select with both cases ready picks either with
\* equal chance, so the canceler case is not passed over forever.
SeqInit == Init /\ kind \in {"accounts", "addresses"}

SeqLiveNext ==
  \/ ListAccounts
  \/ ListAddresses
  \/ Cancel
  \/ DriverStart
  \/ DriverFetch
  \/ DriverSend
  \/ TimerFire
  \/ SelectTimer
  \/ SelectBlock
  \/ WaitTimer
  \/ SelectCancel

SeqLiveSpec ==
  /\ SeqInit
  /\ [][SeqLiveNext]_vars
  /\ WF_vars(DriverStart)
  /\ WF_vars(DriverFetch)
  /\ WF_vars(DriverSend)
  /\ WF_vars(SelectTimer)
  /\ WF_vars(SelectBlock)
  /\ WF_vars(WaitTimer)
  /\ SF_vars(SelectCancel)

\* The windowed fetcher.  The generator, the pool and the forwarding loop
\* run whenever they can and every fetch returns; the consumer receives
\* until it stops, which it may do after Cancel.  A select with both cases
\* ready picks either with equal chance.
CandleInit == Init /\ kind = "candles"

CandleLiveNext ==
  \/ CandleSticks
  \/ Cancel
  \/ CandleStart
  \/ GenSubmit
  \/ GenTimerFire
  \/ GenSelectTimer
  \/ GenSelectBlock
  \/ GenWaitTimer
  \/ GenSelectCancel
  \/ JobDo
  \/ Forward
  \/ CandleSend
  \/ PoolClose
  \/ ForwardEnd
  \/ ConsumerStop

CandleLiveSpec ==
  /\ CandleInit
  /\ [][CandleLiveNext]_vars
  /\ WF_vars(CandleStart)
  /\ WF_vars(GenSubmit)
  /\ WF_vars(GenSelectTimer)
  /\ WF_vars(GenSelectBlock)
  /\ WF_vars(GenWaitTimer)
  /\ SF_vars(GenSelectCancel)
  /\ WF_vars(JobDo)
  /\ WF_vars(Forward)
  /\ WF_vars(CandleSend)
  /\ WF_vars(PoolClose)
  /\ WF_vars(ForwardEnd)

\* The client alone: callers of the setters and a request being signed and
\* sent, for one stream that has not been started.
ClientInit == Init /\ kind = "accounts" /\ req.isNil

ClientNext ==
  \/ SetCredentials
  \/ SetCredentialsKey
  \/ SetCredentialsSecret
  \/ SetCredentialsPassphrase
  \/ SetPassphrase
  \/ SetHTTPRoundTripper
  \/ doAuthAndReq
  \/ signPassphraseCheck
  \/ signPassphraseSet
  \/ signAPIKey
  \/ hmacSignature
  \/ httpClient

ClientSpec == ClientInit /\ [][ClientNext]_vars

\* One call of a single-call operation, for a client whose streams have not
\* been started.
OpInit == Init /\ kind = "accounts" /\ req.isNil

OpNext ==
  \/ CreateAccount
  \/ UpdateAccount
  \/ SetAccountAsPrimary
  \/ DeleteAccountByID
  \/ FindAccountByID
  \/ Order
  \/ HTTPResponse

OpSpec == OpInit /\ [][OpNext]_vars

\* ================================================================ claims
Sequential == kind \in {"accounts", "addresses"}

NoErrorSoFar == \A i \in 1..Len(responses) : ~responses[i].err
AllNonEmpty == \A i \in 1..Len(responses) : responses[i].n > 0

\* C1: the pages delivered on PagesChan of a ListAccounts/ListAddresses
\* stream carry PageNumber 0, 1, 2, ... in exactly that order.
C1_PagesInOrder ==
  Sequential => \A i \in 1..Len(delivered) : delivered[i].PageNumber = i - 1

C1_Witness ==
  /\ Sequential
  /\ Len(delivered) >= 3
  /\ cancelCalls > 0

\* C2: when the fetch of page K fails, no later fetch happens (no page K+1,
\* no retry), the pages delivered are 0..K with Err set on the last one only,
\* and PagesChan is closed once that page is delivered.
C2_ErrorEndsStream ==
  Sequential =>
    \A k \in 1..Len(responses) :
      responses[k].err =>
        /\ Len(responses) = k
        /\ pc \in {"sending", "done"}
        /\ pc = "sending" => Len(delivered) = k - 1 /\ ~pagesClosed
        /\ pc = "done" => /\ pagesClosed
                          /\ Len(delivered) = k
                          /\ delivered[k].Err
                          /\ delivered[k].PageNumber = k - 1
        /\ \A i \in 1..Len(delivered) : delivered[i].Err => i = k

C2_Witness ==
  /\ Sequential
  /\ pc = "done"
  /\ Len(delivered) = 3
  /\ delivered[3].Err

\* C3: once Cancel has been invoked, the driver at its wait initiates no new
\* page fetch, whatever the throttle.
C3_NoFetchAfterCancel ==
  [][(Sequential /\ signalerClosed /\ pc \in {"select", "waiting"})
       => pc' # "fetching"]_vars

C5_CancelOnce ==
  /\ ~panicked
  /\ closeCount <= 1
  /\ cancelCalls = 0 => closeCount = 0
  /\ cancelCalls >= 1 => closeCount = 1 /\ signalerClosed

C5_Witness ==
  /\ cancelCalls >= 2
  /\ pc = "done"
  /\ pagesClosed

\* C6: with MaxPage = M > 0, no fetch error, no cancellation and non-empty
\* pages, the stream emits exactly the pages 0..min(N, M), N being the first
\* page without a next cursor, and then closes; a page with an index above M
\* is never emitted.
C6_MaxPage ==
  (Sequential /\ req.MaxPage > 0) =>
    /\ \A i \in 1..Len(delivered) : delivered[i].PageNumber <= req.MaxPage
    /\ (pc = "done" /\ cancelCalls = 0 /\ NoErrorSoFar /\ AllNonEmpty) =>
         LET k == Len(delivered) IN
           /\ k >= 1
           /\ pagesClosed
           /\ Len(responses) = k
           /\ \A i \in 1..k : delivered[i].PageNumber = i - 1
           /\ \A i \in 1..(k - 1) : responses[i].pagination = "next"
           /\ \/ k - 1 = req.MaxPage
              \/ k - 1 < req.MaxPage /\ responses[k].pagination # "next"

C6_Witness ==
  /\ Sequential
  /\ req.MaxPage = 2
  /\ pc = "done"
  /\ cancelCalls = 0
  /\ NoErrorSoFar
  /\ AllNonEmpty
  /\ Len(delivered) = 3
  /\ responses[3].pagination = "next"

\* C7: with MaxPage <= 0 the page ceiling never ends the stream: a driver
\* that has returned without a cancellation returned after an error page, an
\* empty page or a page without a next cursor, at every page index.
C7_Unbounded ==
  (Sequential /\ req.MaxPage <= 0 /\ pc = "done" /\ ~signalerClosed) =>
    page.Err \/ page.n = 0 \/ nextURI = ""

C7_Witness ==
  /\ Sequential
  /\ req.MaxPage <= 0
  /\ ~signalerClosed
  /\ pageNumber = PageCap
  /\ pc = "fetching"

\* No goroutine was started and nothing was fetched or delivered.
NothingStarted ==
  /\ pc = "none"
  /\ gpc = "none"
  /\ responses = <<>>
  /\ jobs = <<>>
  /\ running = {}
  /\ delivered = <<>>
  /\ cancelCalls = 0

OnlySpaces(str) == \A i \in 1..Len(str) : str[i] = Space

\* C8: ListAddresses with a nil request or an empty or whitespace-only
\* AccountID, and CandleSticks with a nil request or an empty Product, return
\* their validation error and no response: no goroutine is started, nothing
\* is fetched, no page is produced.
C8_ValidationErrors ==
  /\ (kind = "addresses" /\ ret # "pending"
        /\ (req.isNil \/ OnlySpaces(req.AccountID)))
       => ret = "errEmptyAccountID" /\ NothingStarted
  /\ (kind = "candles" /\ ret # "pending" /\ (req.isNil \/ Len(req.Product) = 0))
       => ret = "errBlankProduct" /\ NothingStarted
  /\ ret \notin {"pending", "ok"} => NothingStarted

C8_Witness ==
  /\ kind = "addresses"
  /\ ~req.isNil
  /\ req.AccountID = <<Space, Space>>
  /\ ret = "errEmptyAccountID"

\* The span of the request and the increment the claim states for it.
C9_Span == req.EndTime.sec - req.StartTime.sec
C9_Increment ==
  IF 0 < req.GranularityInSeconds /\ req.GranularityInSeconds <= 30
    THEN req.GranularityInSeconds
    ELSE 5 * 60 * 60

\* C9: with StartTime set, EndTime after it and a span of at least one
\* increment, a generator that finished without a cancellation has generated
\* exactly floor(span / increment) windows.
C9_WindowCount ==
  (/\ kind = "candles"
   /\ ret = "ok"
   /\ req.StartTime.sec > 0
   /\ C9_Span >= C9_Increment
   /\ gpc = "done"
   /\ ~signalerClosed)
    => Len(jobs) = C9_Span \div C9_Increment

\* A span of 10 hours with the default increment of 5 hours: 2 windows.
C9_Witness ==
  /\ kind = "candles"
  /\ req.StartTime.sec > 0
  /\ req.GranularityInSeconds = 0
  /\ C9_Span = 10 * 60 * 60
  /\ gpc = "done"
  /\ ~signalerClosed
  /\ Len(jobs) = 2

\* C10: when StartTime or EndTime is unset, exactly one job is generated, and
\* it carries the caller's start and end as iso8601 prints them.
C10_SingleWindow ==
  (/\ kind = "candles"
   /\ ret = "ok"
   /\ (req.StartTime.sec = 0 \/ req.EndTime.sec = 0))
    => /\ Len(jobs) <= 1
       /\ gpc \in {"none", "send", "done"}
       /\ gpc = "done" => Len(jobs) = 1
       /\ gpc = "send" => job.id = 1 /\ Len(jobs) = 0
       /\ \A i \in 1..Len(jobs) :
            /\ jobs[i].id = 1
            /\ jobs[i].csr.StartTime = iso8601(req.StartTime)
            /\ jobs[i].csr.EndTime = iso8601(req.EndTime)

C10_Witness ==
  /\ kind = "candles"
  /\ req.StartTime.sec > 0
  /\ req.EndTime.sec = 0
  /\ req.GranularityInSeconds = 30
  /\ req.MaxPageNumber = 1
  /\ gpc = "done"
  /\ Len(jobs) = 1

\* C11: with both time bounds set and a caller MaxPageNumber m with
\* 0 < m < floor(span / increment), at most m windows are generated.
C11_CallerCap ==
  (/\ kind = "candles"
   /\ ret = "ok"
   /\ req.StartTime.sec > 0
   /\ req.EndTime.sec > req.StartTime.sec
   /\ 0 < req.MaxPageNumber
   /\ req.MaxPageNumber < C9_Span \div C9_Increment)
    => Len(jobs) <= req.MaxPageNumber

\* The interval of the request and the windows of the submitted jobs, all
\* read as iso8601 prints them.
C12_From == iso8601(req.StartTime).wall
C12_To == iso8601(req.EndTime).wall
C12_Covering(w) ==
  { i \in 1..Len(jobs) :
      jobs[i].csr.StartTime.wall <= w /\ w < jobs[i].csr.EndTime.wall }
\* The number of windows holding an instant changes only at a window's start
\* or end: these instants decide for the whole interval.
C12_Instants ==
  { w \in {C12_From} \cup { jobs[i].csr.StartTime.wall : i \in 1..Len(jobs) }
                      \cup { jobs[i].csr.EndTime.wall : i \in 1..Len(jobs) } :
      C12_From <= w /\ w < C12_To }

\* C12: with both time bounds set and no cancellation, once the generator has
\* finished every instant of [StartTime, EndTime) lies in exactly one
\* generated window.
C12_WindowsCover ==
  (/\ kind = "candles"
   /\ ret = "ok"
   /\ req.StartTime.sec > 0
   /\ req.EndTime.sec > req.StartTime.sec
   /\ gpc = "done"
   /\ ~signalerClosed)
    => \A w \in C12_Instants : Cardinality(C12_Covering(w)) = 1

\* C13: once Cancel has been invoked on a CandleSticks stream, the generator
\* at its wait submits no further job: it does not go on to build and send
\* the job of the next window.
C13_NoJobAfterCancel ==
  [][(kind = "candles" /\ signalerClosed /\ gpc \in {"select", "waiting"})
       => gpc' # "send"]_vars

\* Pages delivered with the sequence number id.
C14_PagesOf(id) == { i \in 1..Len(delivered) : delivered[i].PageNumber = id }
C14_JobIds == { jobs[i].id : i \in 1..Len(jobs) }

\* C14: no job's page is delivered twice, every delivered page belongs to a
\* submitted job, and when PagesChan is closed exactly one page has been
\* delivered for every submitted job, whether its fetch returned items, no
\* items or an error.
C14_OnePagePerJob ==
  kind = "candles" =>
    /\ \A i \in 1..Len(delivered) : delivered[i].PageNumber \in C14_JobIds
    /\ \A id \in C14_JobIds : Cardinality(C14_PagesOf(id)) <= 1
    /\ pagesClosed =>
         \A id \in C14_JobIds : Cardinality(C14_PagesOf(id)) = 1

\* Window 2 failed and was delivered first, window 1 had no items.
C14_Witness ==
  /\ kind = "candles"
  /\ pagesClosed
  /\ Len(jobs) = 2
  /\ Len(delivered) = 2
  /\ delivered[1].PageNumber = 2
  /\ delivered[1].Err
  /\ delivered[2].PageNumber = 1
  /\ ~delivered[2].Err
  /\ delivered[2].n = 0

\* The outcomes of the completed fetches of window id.
C15_OutcomesOf(id) ==
  { i \in 1..Len(responses) : responses[i].id = id }

\* C15: a page carries Err exactly when the fetch of its own window failed,
\* whatever happened to the other windows; the generator stops only by its
\* termination test or the canceler; PagesChan is closed only after the
\* generator has stopped and every submitted job's page has been delivered.
C15_ErrorStaysInPage ==
  kind = "candles" =>
    /\ \A i \in 1..Len(delivered) :
         /\ C15_OutcomesOf(delivered[i].PageNumber) # {}
         /\ \A j \in C15_OutcomesOf(delivered[i].PageNumber) :
              /\ delivered[i].Err = responses[j].err
              /\ delivered[i].n = responses[j].n
    /\ gpc = "done" =>
         \/ signalerClosed
         \/ shouldTerminate(req, startTime, endTime, pageNumber)
    /\ pagesClosed =>
         /\ gpc = "done"
         /\ running = {}
         /\ Len(delivered) = Len(jobs)

\* Window 1 failed and window 2, fetched after it, delivered its items.
C15_Witness ==
  /\ kind = "candles"
  /\ ~signalerClosed
  /\ pagesClosed
  /\ Len(responses) = 2
  /\ responses[1].id = 1
  /\ responses[1].err
  /\ Len(delivered) = 2
  /\ delivered[1].PageNumber = 1
  /\ delivered[1].Err
  /\ delivered[2].PageNumber = 2
  /\ ~delivered[2].Err
  /\ delivered[2].n = 1

\* C16: at most 4 calls of candleStickGetter.Do of one stream execute at the
\* same time, however many windows there are and however long a fetch takes.
C16_AtMostFourDo ==
  kind = "candles" => Cardinality(running) <= 4

\* Four fetches are blocked and the generator waits to hand over window 5.
C16_Witness ==
  /\ kind = "candles"
  /\ Cardinality(running) = 4
  /\ gpc = "send"
  /\ job.id = 5

\* The generator has returned and the consumer has received a page for every
\* submitted job.
C17_AllHandedOver ==
  /\ kind = "candles"
  /\ gpc = "done"
  /\ Len(delivered) = Len(jobs)

\* resChan and PagesChan are closed and no goroutine of the stream is left.
C17_WoundDown ==
  /\ resClosed
  /\ pagesClosed
  /\ gpc = "done"
  /\ pc = "done"
  /\ running = {}
  /\ finished = {}
  /\ csPage = NoPage

\* C17: once the generator has stopped and every submitted job has handed
\* its result to the consumer, the pool's result stream ends, PagesChan is
\* closed and no generator, worker or forwarding task remains.
C17_WindsDown == C17_AllHandedOver ~> C17_WoundDown

C17_Witness ==
  /\ C17_AllHandedOver
  /\ C17_WoundDown
  /\ Len(jobs) = 2
  /\ signalerClosed

\* C18: no two pages delivered on the PagesChan of a CandleSticks stream
\* carry the same PageNumber.
C18_UniquePageNumbers ==
  kind = "candles" =>
    \A i, j \in 1..Len(delivered) :
      delivered[i].PageNumber = delivered[j].PageNumber => i = j

\* Five pages, the page of window 4 delivered first and that of window 1 last.
C18_Witness ==
  /\ kind = "candles"
  /\ Len(delivered) = 5
  /\ delivered[1].PageNumber = 4
  /\ delivered[5].PageNumber = 1
  /\ pagesClosed

\* C19: while SetCredentials and SetPassphrase run concurrently with a
\* request, the request handed to the transport carries the key, the secret
\* and the passphrase of one credential set the client has held.
C19_OneCredentialSet ==
  sent # NoHeaders =>
    [key |-> sent.key, secret |-> sent.secret, passphrase |-> sent.passphrase]
      \in installed

\* C20: once the driver of a ListAccounts, ListAddresses or CandleSticks
\* stream has set its throttle, the wait between fetches is zero for
\* NoThrottle, ThrottleDurationMs milliseconds for a positive value, and a
\* non-zero default for an omitted (zero) value.
C20_ThrottleSelection ==
  (ret = "ok" /\ pc \notin {"none", "start"}) =>
    /\ req.ThrottleDurationMs = -1 => throttleDuration = 0
    /\ req.ThrottleDurationMs > 0 => throttleDuration = req.ThrottleDurationMs
    /\ req.ThrottleDurationMs = 0 => throttleDuration > 0

\* The text the operation was given where the claim speaks of an ID or a
\* name, and whether it is empty or whitespace only.
C21_Blank(str) == \A i \in 1..Len(str) : str[i] = " "

\* The call the claim is about: an argument the operation must reject.
C21_Rejected ==
  \/ op = "CreateAccount" /\ (arg.isNil \/ C21_Blank(arg.Name))
  \/ op = "UpdateAccount" /\ ~arg.isNil
       /\ (C21_Blank(arg.ID) \/ C21_Blank(arg.Name))
  \/ op \in {"DeleteAccountByID", "SetAccountAsPrimary", "FindAccountByID"}
       /\ C21_Blank(arg.accountID)

\* C21: CreateAccount with a nil request or a blank Name, UpdateAccount with
\* a blank ID or Name, and DeleteAccountByID, SetAccountAsPrimary and
\* FindAccountByID with a blank account ID have returned a non-nil error
\* and sent no HTTP request.
C21_RejectedWithoutRequest ==
  C21_Rejected =>
    /\ opc = "done"
    /\ opRet \notin {"pending", "nil"}
    /\ httpRequests = 0
    /\ resp = NoResponse

\* UpdateAccount with an ID and a whitespace-only Name.
C21_Witness ==
  /\ op = "UpdateAccount"
  /\ ~arg.isNil
  /\ arg.ID = <<"a">>
  /\ arg.Name = <<" ", " ">>
  /\ opRet = "errBlankName"
  /\ httpRequests = 0

\* The first failing check of the order given, in the order the claim fixes.
C22_FirstFailure ==
  CASE arg.isNil -> "errBlankProduct"
    [] ~arg.isNil /\ Len(arg.Product) = 0 -> "errBlankProduct"
    [] OTHER ->
         IF arg.Price <= 0 /\ arg.Size <= 0 THEN "errBlankPriceOrSize"
         ELSE IF arg.Side = "" THEN "errBlankSide"
         ELSE IF arg.CancelAfter # "" /\ arg.TimeInForce # "GTT"
           THEN "errCancelAfterWithoutGTT"
         ELSE "nil"

\* C22: Client.Order returns the first failing check of Order.Validate in
\* the order product, price and size, side, CancelAfter without GTT, and has
\* then sent no request; an order that passes them all is sent.
C22_OrderValidation ==
  op = "Order" =>
    IF C22_FirstFailure # "nil"
      THEN /\ opc = "done"
           /\ opRet = C22_FirstFailure
           /\ httpRequests = 0
      ELSE /\ httpRequests = 1
           /\ opRet \notin {"errBlankProduct", "errBlankPriceOrSize",
                             "errBlankSide", "errCancelAfterWithoutGTT"}

\* An order without price, size and side and with CancelAfter but no GTT:
\* the price and size check is the one reported.
C22_Witness ==
  /\ op = "Order"
  /\ ~arg.isNil
  /\ arg.Product = <<"a">>
  /\ arg.Price = 0
  /\ arg.Size = 0
  /\ arg.Side = ""
  /\ arg.CancelAfter = "min"
  /\ arg.TimeInForce = ""
  /\ opRet = "errBlankPriceOrSize"
  /\ httpRequests = 0

\* C23: in a sequential stream a fetched page with zero items, and a
\* non-empty page without a next cursor (no pagination envelope or an empty
\* next_uri), is the last fetch; the page is delivered, with no error page
\* in the stream, and PagesChan is closed when the driver returns, which
\* for a page with zero items it does right after the send.
C23_LastPage ==
  Sequential =>
    \A k \in 1..Len(responses) :
      (/\ ~responses[k].err
       /\ (responses[k].n = 0 \/ responses[k].pagination # "next")) =>
        /\ Len(responses) = k
        /\ pc # "fetching"
        /\ Len(delivered) \in {k - 1, k}
        /\ pc # "sending" =>
             /\ Len(delivered) = k
             /\ delivered[k].PageNumber = k - 1
             /\ delivered[k].n = responses[k].n
        /\ \A i \in 1..Len(delivered) : ~delivered[i].Err
        /\ responses[k].n = 0 => pc \in {"sending", "done"}
        /\ pc = "done" => pagesClosed

\* The second page has an item and no pagination envelope: the driver has
\* returned without a ceiling or a cancellation.
C23_Witness ==
  /\ Sequential
  /\ req.MaxPage <= 0
  /\ ~signalerClosed
  /\ Len(responses) = 2
  /\ responses[2].n = 1
  /\ responses[2].pagination = "none"
  /\ Len(delivered) = 2
  /\ pc = "done"
  /\ pagesClosed

\* The reading of the request's StartTime that iso8601 prints.
C24_Start == req.StartTime.sec + req.StartTime.off

\* Window i is [StartTime + (i - 1) * increment, StartTime + i * increment),
\* for the submitted jobs and the job being sent.
C24_Shape ==
  /\ \A i \in 1..Len(jobs) :
       /\ jobs[i].id = i
       /\ jobs[i].csr.StartTime.wall = C24_Start + (i - 1) * C9_Increment
       /\ jobs[i].csr.EndTime.wall = C24_Start + i * C9_Increment
  /\ job # NoJob =>
       /\ job.csr.StartTime.wall = C24_Start + (job.id - 1) * C9_Increment
       /\ job.csr.EndTime.wall = C24_Start + job.id * C9_Increment

\* C24: when both time bounds are set, the first window is
\* [StartTime, StartTime + increment) and each later window starts at the end
\* of the one before it and spans one increment.
C24_WindowShape ==
  (/\ kind = "candles"
   /\ ret = "ok"
   /\ req.StartTime.sec > 0
   /\ req.EndTime.sec > 0)
    => C24_Shape

\* C24 with the condition the generator tests: when StartTime is set and
\* EndTime is after it, the first window is [StartTime, StartTime +
\* increment) and each later window starts at the end of the one before it
\* and spans one increment.
C24_WindowShapeInRange ==
  (/\ kind = "candles"
   /\ ret = "ok"
   /\ req.StartTime.sec > 0
   /\ req.EndTime.sec > req.StartTime.sec)
    => C24_Shape

\* Two windows of 30 seconds from a start time west of UTC.
C24_Witness ==
  /\ kind = "candles"
  /\ req.StartTime.sec > 0
  /\ req.StartTime.off # 0
  /\ req.EndTime.sec > req.StartTime.sec
  /\ req.GranularityInSeconds = 30
  /\ Len(jobs) = 2
  /\ jobs[2].csr.StartTime = jobs[1].csr.EndTime

\* The page p carries what Do of the job numbered p.PageNumber returned.
C25_FromOwnJob(p) ==
  \E j \in 1..Len(responses) :
    /\ responses[j].id = p.PageNumber
    /\ responses[j].n = p.n
    /\ responses[j].err = p.Err
    /\ \A k \in 1..Len(responses) : responses[k].id = p.PageNumber => k = j

\* C25: every result waiting in the pool, the page being forwarded and every
\* delivered page pairs a job's sequence number with the items and the error
\* of that same job, in whatever order the jobs complete.
C25_ResultAttribution ==
  kind = "candles" =>
    /\ \A r \in finished :
         C25_FromOwnJob([PageNumber |-> r.id, n |-> r.n, Err |-> r.err])
    /\ csPage # NoPage => C25_FromOwnJob(csPage)
    /\ \A i \in 1..Len(delivered) : C25_FromOwnJob(delivered[i])

\* Window 2 returned items and was delivered before window 1, which failed.
C25_Witness ==
  /\ kind = "candles"
  /\ Len(delivered) = 2
  /\ delivered[1].PageNumber = 2
  /\ delivered[1].n = 1
  /\ delivered[2].PageNumber = 1
  /\ delivered[2].Err

\* The window cursor of the generator.
C26_Cursor == << startTime, endTime, pageNumber >>

\* C26: a submitted job keeps the request it was submitted with whatever
\* happens to the cursor afterwards; the cursor changes only in a step of
\* the generator (or of the goroutine that starts it), and never in a step
\* in which a fetch returns, a result is forwarded, a page is delivered,
\* Cancel is invoked or the consumer stops.
C26_CursorOwnership ==
  [][kind = "candles" =>
       /\ Len(jobs') >= Len(jobs)
       /\ \A i \in 1..Len(jobs) : jobs'[i] = jobs[i]
       /\ C26_Cursor' # C26_Cursor => gpc' # gpc
       /\ (\/ responses' # responses
           \/ finished' # finished
           \/ delivered' # delivered
           \/ cancelCalls' # cancelCalls
           \/ receiving' # receiving) => C26_Cursor' = C26_Cursor]_vars

\* Window 1 is submitted and its fetch has not returned; the cursor has
\* moved on and the job of window 2 is being sent.
C26_Witness ==
  /\ kind = "candles"
  /\ Len(jobs) = 1
  /\ 1 \in running
  /\ pageNumber = 2
  /\ job.id = 2
  /\ jobs[1].csr.EndTime = job.csr.StartTime
  /\ startTime # req.StartTime

\* C27: no task of a stream is left blocked forever: once the consumer has
\* invoked Cancel and stopped receiving, no driver or forwarding loop is at
\* a send on PagesChan, which nothing but a receive lets it leave.
C27_NoTaskStuck ==
  (signalerClosed /\ ~receiving) => pc \notin {"sending", "forwarding"}

\* C28: for a response whose status is not 2xx, whatever its body, doHTTPReq
\* has returned a non-nil error, and DeleteAccountByID has not reported
\* success.
C28_FailedStatusIsError ==
  (/\ opc = "done"
   /\ httpRequests = 1
   /\ ~resp.transportErr
   /\ (resp.StatusCode < 200 \/ resp.StatusCode > 299))
    => /\ httpErr \notin {"pending", "nil"}
       /\ op = "DeleteAccountByID" => opRet # "nil"

\* C29: with Cancel already invoked, a started stream still takes its first
\* steps: the driver goes on to its first fetch and leaves it only with a
\* page to send, the generator leaves its first send only by submitting
\* window 1; and no driver or forwarding loop returns, and no generator
\* stops, before the first page was delivered or the first job submitted.
C29_FirstFetchAlways ==
  [][ret = "ok" =>
       /\ (signalerClosed /\ pc = "start") =>
            pc' \in {"start", "fetching", "range"}
       /\ (signalerClosed /\ pc = "fetching" /\ Len(delivered) = 0) =>
            pc' \in {"fetching", "sending"}
       /\ (signalerClosed /\ gpc = "send" /\ Len(jobs) = 0) =>
            (gpc' = "send" \/ (Len(jobs') = 1 /\ jobs'[1].id = 1))
       /\ (pc # "done" /\ pc' = "done") => Len(delivered') >= 1
       /\ (gpc # "done" /\ gpc' = "done") => Len(jobs') >= 1]_vars

\* Page 0 had an item and a next cursor; the driver, waiting out a positive
\* throttle, took the canceler case and returned.
C29_Witness ==
  /\ Sequential
  /\ signalerClosed
  /\ throttleDuration > 0
  /\ ~timerFired
  /\ Len(responses) = 1
  /\ responses[1].n = 1
  /\ responses[1].pagination = "next"
  /\ Len(delivered) = 1
  /\ delivered[1].PageNumber = 0
  /\ pc = "done"

\* The PageNumbers of the pages the consumer has received.
C30_Numbers == { delivered[i].PageNumber : i \in 1..Len(delivered) }

\* C30: the windows the generator submitted are numbered 1, 2, 3, ... in the
\* order of generation, the first being 1, and a later number never has an
\* earlier start time (a strictly later one when EndTime is after
\* StartTime); every page delivered carries one of these numbers, and once
\* the stream of a run that generated k windows is closed the PageNumbers
\* delivered are exactly 1..k.
C30_WindowNumbers ==
  kind = "candles" =>
    /\ \A i \in 1..Len(jobs) : jobs[i].id = i
    /\ \A i \in 1..(Len(jobs) - 1) :
         /\ jobs[i].csr.StartTime.wall <= jobs[i + 1].csr.StartTime.wall
         /\ canPaginateTime(req) =>
              jobs[i].csr.StartTime.wall < jobs[i + 1].csr.StartTime.wall
    /\ C30_Numbers \subseteq 1..Len(jobs)
    /\ pagesClosed => Len(jobs) >= 1 /\ C30_Numbers = 1..Len(jobs)

\* A closed stream of five windows whose pages arrived out of order.
C30_Witness ==
  /\ kind = "candles"
  /\ pagesClosed
  /\ Len(jobs) = 5
  /\ Len(delivered) = 5
  /\ delivered[1].PageNumber = 3
  /\ delivered[5].PageNumber = 2
====
